---- MODULE Spec2Model ----
(***************************************************************************)
(* Configuration resolution of akkudoktoreos (src/akkudoktoreos/config.py): *)
(* the recursive merge of the bundled default document with the user's      *)
(* EOS.config.json, the detection and persisting of an outdated user file,  *)
(* load_config, and get_start_enddate.                                      *)
(*                                                                          *)
(* JSON values are tagged pairs <<tag, payload>>; the tag is the Python     *)
(* runtime type json.load produces (int, float, bool, str, NoneType, list,  *)
(* dict).  A float's payload counts halves (JFloat(1) is 0.5, JFloat(2) is  *)
(* 1.0), so that 10 and 10.0 are different values that compare equal under  *)
(* Python's ==, as they do in the program.  NaN and Infinity, which are not *)
(* JSON but which Python's json module reads, are not modelled.             *)
(***************************************************************************)
EXTENDS Integers, Sequences, FiniteSets, TLC

VARIABLES
    defaultFile,  \* the bundled default.config.json: [exists, text]
    userFile,     \* <working_dir>/EOS.config.json:    [exists, text]
    dirExists,    \* whether the working directory exists
    migrated,     \* a call of this run has persisted a merged document
    last,         \* the record of the last finished call
    pc,           \* concurrent load_config: each process's position
    loc,          \* concurrent load_config: each process's local variables
    user0,        \* concurrent load_config: the user file as the run found it
    clock,        \* get_start_enddate: the wall clock, in hours since day 0, 00:00
    dres          \* get_start_enddate: the record of the last call

vars == <<defaultFile, userFile, dirExists, migrated, last, pc, loc, user0, clock, dres>>

\* ------------------------------------------------------------------ bounds

\* A file's text is written in NChunks flushes.
NChunks == 2
\* get_start_enddate: the longest prediction horizon tried, in hours.
MaxHours == 25
\* get_start_enddate: the clock runs over the hours 0 .. MaxClock.
MaxClock == 26

\* --------------------------------------------------------------- JSON values

JInt(n) == <<"int", n>>
JFloat(h) == <<"float", h>>
JBool(b) == <<"bool", IF b THEN 1 ELSE 0>>
JStr(s) == <<"str", s>>
JNull == <<"NoneType", 0>>
JList(s) == <<"list", s>>
JDict(f) == <<"dict", f>>

\* type(value)
PyType(v) == v[1]
\* isinstance(value, dict)
IsDict(v) == v[1] = "dict"
\* dict.keys()
Keys(v) == DOMAIN v[2]
Get(v, key) == v[2][key]

IsNumber(v) == v[1] \in {"int", "float", "bool"}
\* The numeric value of an int, float or bool, counted in halves.
Num(v) == IF v[1] = "float" THEN v[2] ELSE 2 * v[2]

\* Python's == on the values json.load produces: numbers compare by value
\* across int, float and bool; every other value only with its own type.
RECURSIVE PyEq(_, _)
PyEq(a, b) ==
    IF IsNumber(a) /\ IsNumber(b) THEN Num(a) = Num(b)
    ELSE IF PyType(a) # PyType(b) THEN FALSE
    ELSE IF PyType(a) = "list" THEN
        /\ Len(a[2]) = Len(b[2])
        /\ \A i \in 1..Len(a[2]) : PyEq(a[2][i], b[2][i])
    ELSE IF PyType(a) = "dict" THEN
        /\ Keys(a) = Keys(b)
        /\ \A k \in Keys(a) : PyEq(Get(a, k), Get(b, k))
    ELSE a[2] = b[2]

\* `key in custom_data` (line 70) for whatever json.load returned: a dict's
\* keys, a list's elements, a substring of a str (the strings of this model
\* contain a key only when they are that key).
Contains(custom_data, key) ==
    IF PyType(custom_data) = "dict" THEN key \in Keys(custom_data)
    ELSE IF PyType(custom_data) = "list" THEN
        \E i \in 1..Len(custom_data[2]) : custom_data[2][i] = JStr(key)
    ELSE custom_data = JStr(key)

\* -------------------------------------------------------------------- merge

\* A plausible slip: the loop runs over the user's keys as well, so a key the
\* default does not know survives the merge.
RECURSIVE _merge_json_keeps_unknown(_, _)
_merge_json_keeps_unknown(default_data, custom_data) ==
    JDict([key \in Keys(default_data) \cup Keys(custom_data) |->
        IF key \notin Keys(default_data) THEN Get(custom_data, key)
        ELSE IF key \notin Keys(custom_data) THEN Get(default_data, key)
        ELSE IF IsDict(Get(default_data, key)) /\ IsDict(Get(custom_data, key))
            THEN _merge_json_keeps_unknown(Get(default_data, key), Get(custom_data, key))
        ELSE IF PyType(Get(default_data, key)) = PyType(Get(custom_data, key))
            THEN Get(custom_data, key)
        ELSE Get(default_data, key)])

\* The element types of a list, for a type check that looks into lists.
DeepType(v) ==
    IF PyType(v) = "list" THEN <<"list", {PyType(v[2][i]) : i \in 1..Len(v[2])}>>
    ELSE <<PyType(v), {}>>

\* A plausible change: two lists have the same type only when their elements
\* have the same types.
RECURSIVE _merge_json_element_typed(_, _)
_merge_json_element_typed(default_data, custom_data) ==
    JDict([key \in Keys(default_data) |->
        IF key \notin Keys(custom_data) THEN Get(default_data, key)
        ELSE IF IsDict(Get(default_data, key)) /\ IsDict(Get(custom_data, key))
            THEN _merge_json_element_typed(Get(default_data, key), Get(custom_data, key))
        ELSE IF DeepType(Get(default_data, key)) = DeepType(Get(custom_data, key))
            THEN Get(custom_data, key)
        ELSE Get(default_data, key)])

\* _merge_json on two dicts.
RECURSIVE _merge_json(_, _)
_merge_json(default_data, custom_data) ==
    JDict([key \in Keys(default_data) |->
        LET default_value == Get(default_data, key) IN
        IF key \in Keys(custom_data) THEN
            LET custom_value == Get(custom_data, key) IN
            IF IsDict(default_value) /\ IsDict(custom_value)
                THEN _merge_json(default_value, custom_value)
            ELSE IF PyType(default_value) = PyType(custom_value)
                THEN custom_value
            ELSE default_value
        ELSE default_value])

\* _config_update_available on two dicts.
RECURSIVE _config_update_available(_, _)
_config_update_available(merged_data, custom_data) ==
    IF Keys(merged_data) # Keys(custom_data) THEN TRUE
    ELSE \E key \in Keys(merged_data) :
        LET value1 == Get(merged_data, key)
            value2 == Get(custom_data, key) IN
        IF IsDict(value1) /\ IsDict(value2)
            THEN _config_update_available(value1, value2)
        ELSE ~PyEq(value1, value2)

\* What _merge_json and _config_update_available raise when json.load gave
\* something that is no dict: `key in custom_data` raises TypeError on a
\* number, a bool or None; on a list or str it answers, custom_data[key]
\* raises TypeError when it answers yes, and otherwise custom_data.keys()
\* (line 85) raises AttributeError.
NonDictRaises(default_data, custom_data) ==
    IF PyType(custom_data) \in {"list", "str"} THEN
        IF \E key \in Keys(default_data) : Contains(custom_data, key)
            THEN "TypeError" ELSE "AttributeError"
    ELSE IF Keys(default_data) # {} THEN "TypeError" ELSE "AttributeError"

\* -------------------------------------------------------------------- files

DEFAULT_CONFIG_FILE == "default.config.json"
CONFIG_FILE_NAME == "EOS.config.json"

\* A file's text is a sequence of cells <<i, doc>>: the i-th chunk of the
\* serialisation of doc; <<0, JNull>> is a cell no serialisation holds.
Hole == <<0, JNull>>
NoFile == [exists |-> FALSE, text |-> <<>>]
FileOf(text) == [exists |-> TRUE, text |-> text]

\* A plausible slip: json.dump is given the document as it was read.
to_dump_custom(merged_data, custom_data) == custom_data

\* The document _merge_and_update hands to json.dump (line 135).
to_dump(merged_data, custom_data) == merged_data

\* json.dump(doc, f_out, indent=2): the text it writes.
json_dump(doc) == [i \in 1..NChunks |-> <<i, doc>>]

\* Whether json.load accepts the text: it is one document's whole serialisation.
WellFormed(text) ==
    /\ Len(text) = NChunks
    /\ \A i \in 1..NChunks : text[i] = <<i, text[1][2]>>

\* _load_json(path), and the json.load of line 152: the document, or what is
\* raised (open() on a missing file, json.load on a text that is no JSON).
_load_json(file) ==
    IF ~file.exists THEN [exc |-> "FileNotFoundError", doc |-> JNull]
    ELSE IF ~WellFormed(file.text) THEN [exc |-> "JSONDecodeError", doc |-> JNull]
    ELSE [exc |-> "none", doc |-> file.text[1][2]]

\* --------------------------------------------------------------- validation

\* pydantic's (lax) reading of a field declared str, int, list[float].
ValidStr(v) == PyType(v) = "str"
ValidInt(v) ==
    \/ PyType(v) \in {"int", "bool"}
    \/ PyType(v) = "float" /\ v[2] % 2 = 0
ValidFloat(v) == IsNumber(v)
ValidFloatList(v) ==
    /\ PyType(v) = "list"
    /\ \A i \in 1..Len(v[2]) : ValidFloat(v[2][i])

\* A required field: present and valid.
Field(obj, key) == IF key \in Keys(obj) THEN Get(obj, key) ELSE <<"missing", 0>>

\* FolderConfig.model_validate
FolderConfig(v) ==
    /\ IsDict(v)
    /\ ValidStr(Field(v, "output"))
    /\ ValidStr(Field(v, "cache"))

\* EOSConfig.model_validate
EOSConfig(v) ==
    /\ IsDict(v)
    /\ ValidInt(Field(v, "prediction_hours"))
    /\ ValidInt(Field(v, "optimization_hours"))
    /\ ValidInt(Field(v, "penalty"))
    /\ ValidFloatList(Field(v, "available_charging_rates_in_percentage"))

\* BaseConfig.model_validate succeeds (keys the model does not declare are
\* ignored).
BaseConfig(v) ==
    /\ IsDict(v)
    /\ FolderConfig(Field(v, "directories"))
    /\ EOSConfig(Field(v, "eos"))

\* ----------------------------------------------------------------- handlers

\* get_config_file(path, copy_default): the path it returns and the user file
\* it leaves.  copy_ok is whether shutil.copy2 succeeds.
get_config_file(dir_exists, user, dflt, copy_default, copy_ok) ==
    IF user.exists THEN [path |-> CONFIG_FILE_NAME, user |-> user]
    ELSE IF ~dir_exists THEN [path |-> DEFAULT_CONFIG_FILE, user |-> user]
    ELSE IF ~copy_default THEN [path |-> DEFAULT_CONFIG_FILE, user |-> user]
    ELSE IF copy_ok THEN [path |-> CONFIG_FILE_NAME, user |-> FileOf(dflt.text)]
    ELSE [path |-> DEFAULT_CONFIG_FILE, user |-> user]

\* A plausible slip: the file is rewritten whenever it is outdated.
PersistsAlways(available, update_outdated) == available

\* Whether _merge_and_update reaches the write of lines 134-135.
Persists(available, update_outdated) == available /\ update_outdated

\* A plausible slip: the result says an update was found, persisted or not.
ReturnsFound(available, update_outdated) == available

\* What _merge_and_update returns once both documents are merged
\* (lines 129-137).
Returns(available, update_outdated) ==
    IF ~available THEN FALSE
    ELSE IF update_outdated THEN TRUE
    ELSE FALSE

NoMerge(exc, user) ==
    [exc |-> exc, ret |-> FALSE, parsed |-> FALSE, custom_data |-> JNull,
     merged_data |-> JNull, available |-> FALSE, wrote |-> FALSE, user |-> user]

\* _merge_and_update(custom_config, update_outdated): what it raises or
\* returns, what it computed, and the user file it leaves.
_merge_and_update(custom_config, update_outdated, dflt, user) ==
    IF custom_config = DEFAULT_CONFIG_FILE THEN NoMerge("none", user)
    ELSE
        LET d == _load_json(dflt)
            c == _load_json(user) IN
        IF d.exc # "none" THEN NoMerge(d.exc, user)
        ELSE IF c.exc # "none" THEN NoMerge(c.exc, user)
        ELSE IF ~IsDict(c.doc) THEN NoMerge(NonDictRaises(d.doc, c.doc), user)
        ELSE
            LET merged_data == _merge_json(d.doc, c.doc)
                available == _config_update_available(merged_data, c.doc)
                wrote == Persists(available, update_outdated) IN
            [exc |-> "none",
             ret |-> Returns(available, update_outdated),
             parsed |-> TRUE,
             custom_data |-> c.doc,
             merged_data |-> merged_data,
             available |-> available,
             wrote |-> wrote,
             user |-> IF wrote THEN FileOf(json_dump(to_dump(merged_data, c.doc)))
                      ELSE user]

\* load_config(working_dir, copy_default, update_outdated): "none" when an
\* AppConfig is returned, "ConfigError" for the ValueError of line 157, or
\* the exception that escapes.
load_config(dir_exists, user, dflt, copy_default, update_outdated, copy_ok) ==
    LET g == get_config_file(dir_exists, user, dflt, copy_default, copy_ok)
        m == _merge_and_update(g.path, update_outdated, dflt, g.user)
        config == IF g.path = DEFAULT_CONFIG_FILE THEN dflt ELSE m.user
        j == _load_json(config)
        exc == IF m.exc # "none" THEN m.exc
               ELSE IF j.exc # "none" THEN j.exc
               ELSE IF BaseConfig(j.doc) THEN "none"
               ELSE "ConfigError" IN
    [m EXCEPT !.exc = exc] @@ [path |-> g.path]

\* ---------------------------------------------------------------- documents

ChargingRates == JList(<<JFloat(0), JFloat(1), JFloat(2)>>)

\* default.config.json, with the groups and field types of the file format.
DefaultDoc ==
    JDict([directories |-> JDict([output |-> JStr("output"), cache |-> JStr("cache")]),
           eos |-> JDict([prediction_hours |-> JInt(48),
                          optimization_hours |-> JInt(24),
                          penalty |-> JInt(10),
                          available_charging_rates_in_percentage |-> ChargingRates])])

\* The default documents tried: the one above, and one with a further
\* top-level flag of type int.
Defaults == {DefaultDoc, JDict(DefaultDoc[2] @@ [extra |-> JInt(1)])}

Absent == <<"absent", 0>>

\* The objects that give each key of opts one of its options, or leave it out.
Objects(opts) ==
    LET all == UNION {opts[k] : k \in DOMAIN opts}
        choices == {f \in [DOMAIN opts -> all] : \A k \in DOMAIN opts : f[k] \in opts[k]} IN
    {JDict([k \in {x \in DOMAIN opts : f[x] # Absent} |-> f[k]]) : f \in choices}

UserDirectories ==
    {Absent, JInt(5)} \cup
    Objects([output |-> {Absent, JStr("output")},
             cache |-> {JStr("cache"), JStr("other")}])

UserEos ==
    {Absent, JList(<<>>)} \cup
    Objects([prediction_hours |-> {Absent, JInt(48)},
             optimization_hours |-> {JInt(24), JStr("a")},
             penalty |-> {Absent, JInt(10), JInt(7), JFloat(20)},
             available_charging_rates_in_percentage |->
                {Absent, ChargingRates, JList(<<JInt(0), JFloat(1)>>),
                 JList(<<JStr("a")>>)}])

UserExtra == {Absent, JBool(TRUE), JDict([a |-> JInt(1)])}

\* The user documents that are JSON objects.
UserObjects ==
    Objects([directories |-> UserDirectories, eos |-> UserEos, extra |-> UserExtra])

\* The user documents that are JSON but no object.
UserNonObjects ==
    {JInt(5), JNull, JBool(TRUE), JStr("eos"), JStr("a"), JList(<<>>), JList(<<JStr("eos")>>)}

\* The texts a user file may hold: a document's serialisation, an empty file,
\* a text that is no JSON.
UserTexts ==
    {json_dump(u) : u \in UserObjects \cup UserNonObjects} \cup {<<>>, <<Hole>>}

\* --------------------------------------------------- sequential specification

\* What a call's record keeps of a handler's result r.
Kept(r) ==
    [exc |-> r.exc, ret |-> r.ret, parsed |-> r.parsed,
     custom_data |-> r.custom_data, merged_data |-> r.merged_data,
     available |-> r.available, wrote |-> r.wrote]

NoCall ==
    Kept(NoMerge("none", NoFile)) @@
    [op |-> "none", path |-> DEFAULT_CONFIG_FILE, copy_default |-> FALSE,
     update_outdated |-> FALSE, before |-> NoFile, migrated_before |-> FALSE]

NoDate == [called |-> FALSE, prediction_hours |-> 0, given |-> FALSE,
           startdate |-> 0, now1 |-> 0, now2 |-> 0, date_now |-> 0, date |-> 0]

Idle == [p \in {1, 2} |-> "idle"]
NoLocals ==
    [p \in {1, 2} |-> [merged_data |-> JNull, written |-> 0, exc |-> "none"]]

Init ==
    /\ defaultFile \in {FileOf(json_dump(d)) : d \in Defaults}
    /\ dirExists \in BOOLEAN
    /\ userFile \in {NoFile} \cup
                    (IF dirExists THEN {FileOf(t) : t \in UserTexts} ELSE {})
    /\ migrated = FALSE
    /\ last = NoCall
    /\ pc = Idle
    /\ loc = NoLocals
    /\ user0 = userFile
    /\ clock = 0
    /\ dres = NoDate

\* A call of load_config.
LoadConfig(copy_default, update_outdated, copy_ok) ==
    \E r \in {load_config(dirExists, userFile, defaultFile, copy_default,
                            update_outdated, copy_ok)} :
    /\ userFile' = r.user
    /\ migrated' = (migrated \/ r.wrote)
    /\ last' = Kept(r) @@ [op |-> "load_config", path |-> r.path, copy_default |-> copy_default,
                     update_outdated |-> update_outdated, before |-> userFile,
                     migrated_before |-> migrated]
    /\ UNCHANGED <<defaultFile, dirExists, pc, loc, user0, clock, dres>>

\* A call of _merge_and_update on its own.
MergeAndUpdate(custom_config, update_outdated) ==
    \E r \in {_merge_and_update(custom_config, update_outdated, defaultFile, userFile)} :
    /\ userFile' = r.user
    /\ migrated' = (migrated \/ r.wrote)
    /\ last' = Kept(r) @@ [op |-> "_merge_and_update", path |-> custom_config,
                     copy_default |-> FALSE, update_outdated |-> update_outdated,
                     before |-> userFile, migrated_before |-> migrated]
    /\ UNCHANGED <<defaultFile, dirExists, pc, loc, user0, clock, dres>>

Next ==
    \/ \E copy_default, update_outdated, copy_ok \in BOOLEAN :
        LoadConfig(copy_default, update_outdated, copy_ok)
    \/ \E custom_config \in {DEFAULT_CONFIG_FILE, CONFIG_FILE_NAME}, update_outdated \in BOOLEAN :
        MergeAndUpdate(custom_config, update_outdated)

Spec == Init /\ [][Next]_vars

\* ------------------------------------------------- claims, sequential calls

\* The default document of this run.
DefaultData == _load_json(defaultFile).doc

RATES == "available_charging_rates_in_percentage"

RECURSIVE SameKeySets(_, _)
SameKeySets(d, m) ==
    /\ IsDict(m)
    /\ Keys(m) = Keys(d)
    /\ \A k \in Keys(d) : IsDict(Get(d, k)) => SameKeySets(Get(d, k), Get(m, k))

\* C1: whatever object the user file holds, the merged document has exactly
\* the default's keys, at the top level and in every nested object of the
\* default.
C1_MergedHasDefaultKeys ==
    last.parsed => SameKeySets(DefaultData, last.merged_data)

\* C1's case: the user document has a key the default lacks, lacks a group,
\* and holds a non-object where the default has a group.
C1_Witness ==
    /\ last.parsed
    /\ "extra" \in Keys(last.custom_data) \ Keys(DefaultData)
    /\ "directories" \notin Keys(last.custom_data)
    /\ "eos" \in Keys(last.custom_data)
    /\ ~IsDict(Get(last.custom_data, "eos"))

\* C2: no call writes the bundled default; a call changes an existing user
\* file only when update_outdated is set and the merge of the default with
\* the file's document differs from that document, and it then leaves the
\* merged document; a user file that did not exist is at most created, as a
\* copy of the default, by load_config with copy_default.
C2_WritesOnlyOutdatedOnRequest ==
    [][ /\ defaultFile' = defaultFile
        /\ (userFile.exists /\ userFile' # userFile) =>
              LET u == _load_json(userFile) IN
              /\ last'.update_outdated
              /\ u.exc = "none"
              /\ IsDict(u.doc)
              /\ _merge_json(DefaultData, u.doc) # u.doc
              /\ userFile' = FileOf(json_dump(_merge_json(DefaultData, u.doc)))
        /\ (~userFile.exists /\ userFile' # userFile) =>
              /\ last'.op = "load_config"
              /\ last'.copy_default
              /\ dirExists
              /\ userFile' = defaultFile
      ]_vars

\* C2's case: a call found an outdated user file and rewrote it.
C2_Witness ==
    /\ last.op = "load_config"
    /\ last.before.exists
    /\ last.available
    /\ last.update_outdated
    /\ userFile # last.before

\* C3: once a call has persisted the merged document, merging the file's
\* document again changes nothing, no update is available on it, and a
\* further call detects no update and does not write.
C3_MigrationIdempotent ==
    /\ migrated =>
          LET m == _load_json(userFile).doc IN
          /\ _load_json(userFile).exc = "none"
          /\ _merge_json(DefaultData, m) = m
          /\ ~_config_update_available(_merge_json(DefaultData, m), m)
    /\ (last.migrated_before /\ last.op # "none") =>
          /\ ~last.available
          /\ ~last.wrote
          /\ ~last.ret
          /\ userFile = last.before

\* C3's case: a file that a call migrated was loaded again.
C3_Witness ==
    /\ last.migrated_before
    /\ last.op = "load_config"
    /\ last.parsed
    /\ last.path = CONFIG_FILE_NAME

\* Some key present in both documents, at any nesting level, holds values of
\* different runtime types.
RECURSIVE TypeMismatch(_, _)
TypeMismatch(d, u) ==
    \E k \in Keys(d) \cap Keys(u) :
        IF IsDict(Get(d, k)) /\ IsDict(Get(u, k)) THEN TypeMismatch(Get(d, k), Get(u, k))
        ELSE PyType(Get(d, k)) # PyType(Get(u, k))

\* The merged document m holds the default's value at every such key.
RECURSIVE DefaultAtMismatch(_, _, _)
DefaultAtMismatch(d, u, m) ==
    \A k \in Keys(d) \cap Keys(u) :
        IF IsDict(Get(d, k)) /\ IsDict(Get(u, k))
            THEN DefaultAtMismatch(Get(d, k), Get(u, k), Get(m, k))
        ELSE PyType(Get(d, k)) # PyType(Get(u, k)) => Get(m, k) = Get(d, k)

\* C4: when the user's value at some key has another runtime type than the
\* default's, the merge takes the default's value there and an update is
\* reported available.
C4_MismatchFallsBackAndIsDetected ==
    (last.parsed /\ TypeMismatch(DefaultData, last.custom_data)) =>
        /\ DefaultAtMismatch(DefaultData, last.custom_data, last.merged_data)
        /\ last.available

\* C5 as stated: _merge_and_update returns true for every user file that
\* differs from the merge, whether or not update_outdated is set.
C5_ReportsFoundRegardless ==
    (last.op = "_merge_and_update" /\ last.parsed
        /\ _merge_json(DefaultData, last.custom_data) # last.custom_data)
    => last.ret

\* C5, amended: _merge_and_update returns true exactly when the located file
\* is not the bundled default, an update is available and update_outdated is
\* set, and it has then persisted the merged document.
C5_ReportsPersistedUpdate ==
    last.op # "none" =>
        /\ last.ret <=>
              /\ last.path # DEFAULT_CONFIG_FILE
              /\ last.parsed
              /\ _config_update_available(
                     _merge_json(DefaultData, last.custom_data), last.custom_data)
              /\ last.update_outdated
        /\ last.ret => userFile = FileOf(json_dump(last.merged_data))

\* C5's case: an update was found, was not to be persisted, and the result
\* is false.
C5_Witness ==
    /\ last.op = "_merge_and_update"
    /\ last.available
    /\ ~last.update_outdated
    /\ ~last.ret

\* C6: load_config returns an AppConfig or raises the configuration error,
\* and returns whenever the merge of default and user document satisfies
\* the schema.
C6_OnlyConfigurationErrors ==
    last.op = "load_config" =>
        /\ last.exc \in {"none", "ConfigError"}
        /\ (last.parsed /\ BaseConfig(last.merged_data)) => last.exc = "none"

\* The user supplies, for the charging rates, a list with an element that is
\* no float, where the default holds a list of floats.
OtherTypedRates ==
    /\ last.parsed
    /\ "eos" \in Keys(last.custom_data)
    /\ IsDict(Get(last.custom_data, "eos"))
    /\ RATES \in Keys(Get(last.custom_data, "eos"))
    /\ LET l == Get(Get(last.custom_data, "eos"), RATES) IN
       /\ PyType(l) = "list"
       /\ \E i \in 1..Len(l[2]) : PyType(l[2][i]) # "float"

MergedRates == Get(Get(last.merged_data, "eos"), RATES)

\* C7 as stated: the merge then keeps the default's list of floats.
C7_KeepsDefaultRates ==
    OtherTypedRates => MergedRates = Get(Get(DefaultData, "eos"), RATES)

\* C7, amended: the merge then keeps the user's list, because both values
\* are lists and the type check does not look at the elements.
C7_KeepsUserRates ==
    OtherTypedRates => MergedRates = Get(Get(last.custom_data, "eos"), RATES)

\* C7's case: the user's list is [0, 0.5].
C7_Witness ==
    /\ OtherTypedRates
    /\ Get(Get(last.custom_data, "eos"), RATES) = JList(<<JInt(0), JFloat(1)>>)

\* C9: a load_config that raises leaves the user file as it was.
C9_RaisingLoadLeavesFile ==
    (last.op = "load_config" /\ last.exc # "none") => userFile = last.before

\* ------------------------------------------------------- get_start_enddate

\* timedelta(hours=prediction_hours), normalised to days and seconds.
timedelta(hours) == [days |-> hours \div 24, seconds |-> (hours % 24) * 3600]

\* datetime + timedelta, on a date-time counted in hours.
datetime_add(dt, td) == dt + 24 * td.days + td.seconds \div 3600

\* date + timedelta, on a date counted in days: only the timedelta's days count.
date_add(d, td) == d + td.days

\* datetime.date(), and the calendar date strftime("%Y-%m-%d") prints of a
\* date-time: its day, the time of day dropped.
date_of(dt) == dt \div 24

\* get_start_enddate(prediction_hours, startdate); now1 and now2 are what the
\* two calls of datetime.now() return when startdate is None.
get_start_enddate(prediction_hours, given, startdate, now1, now2) ==
    IF ~given THEN
        [date_now |-> date_of(now2),
         date |-> date_add(date_of(now1), timedelta(prediction_hours))]
    ELSE
        [date_now |-> date_of(startdate),
         date |-> date_of(datetime_add(startdate, timedelta(prediction_hours)))]

InitDate ==
    /\ defaultFile = FileOf(json_dump(DefaultDoc))
    /\ userFile = NoFile
    /\ dirExists = FALSE
    /\ migrated = FALSE
    /\ last = NoCall
    /\ pc = Idle
    /\ loc = NoLocals
    /\ user0 = NoFile
    /\ clock \in 0..MaxClock
    /\ dres = NoDate

\* Time passes between calls.
Tick ==
    /\ ~dres.called
    /\ clock < MaxClock
    /\ clock' = clock + 1
    /\ UNCHANGED <<defaultFile, userFile, dirExists, migrated, last, pc, loc, user0, dres>>

\* A call of get_start_enddate; the clock may advance between the two calls
\* of datetime.now().
GetStartEnddate(prediction_hours, given, startdate, elapsed) ==
    /\ ~dres.called
    /\ clock + elapsed <= MaxClock
    /\ given => elapsed = 0
    /\ ~given => startdate = 0
    /\ clock' = clock + elapsed
    /\ dres' = get_start_enddate(prediction_hours, given, startdate, clock, clock + elapsed)
               @@ [called |-> TRUE, prediction_hours |-> prediction_hours,
                   given |-> given, startdate |-> startdate,
                   now1 |-> clock, now2 |-> clock + elapsed]
    /\ UNCHANGED <<defaultFile, userFile, dirExists, migrated, last, pc, loc, user0>>

\* The caller has taken the two dates; the next call may follow.
TakeDates ==
    /\ dres.called
    /\ dres' = NoDate
    /\ UNCHANGED <<defaultFile, userFile, dirExists, migrated, last, pc, loc, user0, clock>>

NextDate ==
    \/ Tick
    \/ TakeDates
    \/ \E prediction_hours \in 0..MaxHours, given \in BOOLEAN,
          startdate \in 0..MaxClock, elapsed \in {0, 1} :
        GetStartEnddate(prediction_hours, given, startdate, elapsed)

SpecDate == InitDate /\ [][NextDate]_vars

\* C8: the first date is the calendar date of the reference date-time and
\* the second the calendar date of the reference advanced by
\* prediction_hours hours, with startdate given and with the reference 'now'.
C8_DatesOfReferenceAndHorizon ==
    dres.called =>
        \E ref \in (IF dres.given THEN {dres.startdate} ELSE dres.now1..dres.now2) :
            /\ dres.date_now = ref \div 24
            /\ dres.date = (ref + dres.prediction_hours) \div 24

\* --------------------------------------------------- concurrent load_config

\* Two processes run load_config(working_dir, update_outdated=True) on the
\* same working directory, whose user file exists and is outdated.  A step is
\* one access to the file system; a process reads a file whole.

Procs == {1, 2}

\* The user documents the race is run on: each one is outdated.
RaceDocs ==
    {JDict([eos |-> JList(<<>>)]),
     JDict([directories |-> JDict([cache |-> JStr("other")]), extra |-> JBool(TRUE)]),
     JDict([eos |-> JDict([optimization_hours |-> JInt(24),
                           available_charging_rates_in_percentage |-> JList(<<JStr("a")>>)])]),
     JDict([directories |-> JDict([output |-> JStr("output"), cache |-> JStr("cache")]),
            eos |-> JDict([prediction_hours |-> JInt(48),
                           optimization_hours |-> JStr("a"),
                           penalty |-> JInt(7),
                           available_charging_rates_in_percentage |-> ChargingRates])])}

InitRace ==
    /\ defaultFile = FileOf(json_dump(DefaultDoc))
    /\ userFile \in {FileOf(json_dump(u)) : u \in RaceDocs}
    /\ dirExists = TRUE
    /\ migrated = FALSE
    /\ last = NoCall
    /\ pc = Idle
    /\ loc = NoLocals
    /\ user0 = userFile
    /\ clock = 0
    /\ dres = NoDate

\* A plausible slip: the file is opened for appending, and every flush lands
\* at the end of the file.
WriteAppend(text, k, cell) == Append(text, cell)

\* The k-th flush of a file opened with "w": the cell lands at the writer's
\* own offset, beyond whatever the file holds before it.
WriteAt(text, k, cell) ==
    [i \in 1..(IF Len(text) > k THEN Len(text) ELSE k) |->
        IF i = k THEN cell
        ELSE IF i <= Len(text) THEN text[i]
        ELSE Hole]

Goto(p, label) == pc' = [pc EXCEPT ![p] = label]
Raise(p, exc) ==
    /\ pc' = [pc EXCEPT ![p] = "raised"]
    /\ loc' = [loc EXCEPT ![p].exc = exc]

\* get_config_file: config.is_file() holds.
RaceLocate(p) ==
    /\ pc[p] = "idle"
    /\ userFile.exists
    /\ Goto(p, "merge")
    /\ UNCHANGED <<defaultFile, userFile, dirExists, migrated, last, loc, user0, clock, dres>>

\* _merge_and_update up to its decision (lines 123-133): both files are read
\* and merged.
RaceMerge(p) ==
    /\ pc[p] = "merge"
    /\ \E r \in {_merge_and_update(CONFIG_FILE_NAME, TRUE, defaultFile, userFile)} :
        IF r.exc # "none" THEN Raise(p, r.exc)
        ELSE /\ Goto(p, IF r.wrote THEN "open" ELSE "validate")
             /\ loc' = [loc EXCEPT ![p].merged_data = to_dump(r.merged_data, r.custom_data)]
    /\ UNCHANGED <<defaultFile, userFile, dirExists, migrated, last, user0, clock, dres>>

\* custom_config.open("w") (line 134): the file is truncated.
RaceOpen(p) ==
    /\ pc[p] = "open"
    /\ userFile' = FileOf(<<>>)
    /\ Goto(p, "write")
    /\ UNCHANGED <<defaultFile, dirExists, migrated, last, loc, user0, clock, dres>>

\* json.dump and the close of the file (line 135): the next chunk of the
\* merged document reaches the file.
RaceWrite(p) ==
    /\ pc[p] = "write"
    /\ LET k == loc[p].written + 1 IN
       /\ userFile' = FileOf(WriteAt(userFile.text, k, json_dump(loc[p].merged_data)[k]))
       /\ loc' = [loc EXCEPT ![p].written = k]
       /\ Goto(p, IF k = NChunks THEN "validate" ELSE "write")
    /\ UNCHANGED <<defaultFile, dirExists, migrated, last, user0, clock, dres>>

\* The read and validation of lines 150-157.
RaceValidate(p) ==
    /\ pc[p] = "validate"
    /\ \E j \in {_load_json(userFile)} :
        IF j.exc # "none" THEN Raise(p, j.exc)
        ELSE IF ~BaseConfig(j.doc) THEN Raise(p, "ConfigError")
        ELSE Goto(p, "done") /\ UNCHANGED loc
    /\ UNCHANGED <<defaultFile, userFile, dirExists, migrated, last, user0, clock, dres>>

NextRace ==
    \E p \in Procs :
        \/ RaceLocate(p)
        \/ RaceMerge(p)
        \/ RaceOpen(p)
        \/ RaceWrite(p)
        \/ RaceValidate(p)

SpecRace == InitRace /\ [][NextRace]_vars

Finished(p) == pc[p] \in {"done", "raised"}

\* C10: once both processes have finished, the user file holds the whole
\* merge of the default with the document the run started from.
C10_LastWriterLeavesMerged ==
    (\A p \in Procs : Finished(p)) =>
        userFile = FileOf(json_dump(_merge_json(DefaultData, _load_json(user0).doc)))

\* C10's case: both processes wrote, their writes interleaved so that one of
\* them read a truncated file, and both have finished.
C10_Witness ==
    /\ \A p \in Procs : Finished(p) /\ loc[p].written = NChunks
    /\ \E p \in Procs : loc[p].exc = "JSONDecodeError"

====
